---- MODULE Spec2Model ----
(***************************************************************************)
(* The chat session manager of the ChatInterface component: the WebSocket  *)
(* lifecycle (connectWebSocket, the four socket handlers, the reconnect    *)
(* timer, the mount effect and its cleanup) and sendMessage.               *)
(*                                                                         *)
(* The repository holds the component twice:                               *)
(*   variant "A"  src/frontend/src/components/chat/ChatInterface.tsx       *)
(*   variant "C"  src/unnamed/part_003, lines 266-543 (lines 1-264 hold a  *)
(*                copy with the same hooks and handlers)                   *)
(* Both are modelled; `variant` says which one a behaviour runs.           *)
(*                                                                         *)
(* React: a state setter called in a handler takes effect when the handler *)
(* returns; the re-render that follows is part of the same step.           *)
(* connectWebSocket is a useCallback over reconnectAttempts, and the mount *)
(* effect depends on connectWebSocket, so a step that changes              *)
(* reconnectAttempts re-runs the effect: its cleanup, then                 *)
(* connectWebSocket of the new render.  The handlers of a socket and the   *)
(* timers they schedule keep the reconnectAttempts of the render whose     *)
(* connectWebSocket created the socket (field `attempts`).                 *)
(***************************************************************************)
EXTENDS Integers, Sequences, FiniteSets, TLC

\* ---------------------------------------------------------------- bounds
MaxSockets == 5        \* WebSocket objects created in one behaviour
MaxTimers == 4         \* setTimeout calls in one behaviour
MaxAttempts == 3       \* cap of the model on reconnectAttempts
MaxDeepSockets == 9    \* WebSocket objects created in one behaviour of DeepSpec
MaxDeepTimers == 5     \* setTimeout calls in one behaviour of DeepSpec
MaxDeepAttempts == 4   \* cap on reconnectAttempts in DeepSpec
MaxMessages == 2       \* transcript length
MaxStatuses == 1       \* processing-status list length
MaxSent == 1           \* frames transmitted
MaxRetrySockets == 7   \* WebSocket objects created in one behaviour of RetrySpec
MaxRetryTimers == 5    \* setTimeout calls in one behaviour of RetrySpec
MaxPending == 1        \* submitQuestionnaire calls awaiting their response

\* ------------------------------------------------------ program constants
NORMAL_CLOSURE == 1000         \* event.code !== 1000
ABNORMAL_CLOSURE == 1006       \* the code a browser reports for a failed or dropped connection
SERVER_ERROR == 1011           \* a close code a server may send
RETRY_CEILING == 3             \* reconnectAttempts < 3
BASE_DELAY == 1000             \* 1000 * Math.pow(2, reconnectAttempts)
MAX_DELAY == 5000              \* Math.min(..., 5000)

Variants == {"A", "C"}

\* ------------------------------------------------------------------ text
\* A text is a sequence of tokens; " " is the whitespace token.
SP == " "
InputTexts == {<<>>, <<SP>>, <<SP, "hi", SP>>}

RECURSIVE TrimStart(_)
TrimStart(s) == IF s # <<>> /\ Head(s) = SP THEN TrimStart(Tail(s)) ELSE s

RECURSIVE TrimEnd(_)
TrimEnd(s) ==
    IF s # <<>> /\ s[Len(s)] = SP THEN TrimEnd(SubSeq(s, 1, Len(s) - 1)) ELSE s

\* String.prototype.trim
Trim(s) == TrimEnd(TrimStart(s))

FailedToSend == <<"Failed to send message. Please try again.">>
FailedToProcess == <<"Error: Failed to process response">>
ErrorPrefix == <<"Error: ">>

NoMetadata == [error |-> FALSE, platform |-> ""]
ErrorMetadata == [error |-> TRUE, platform |-> ""]

UserMessage(text) == [role |-> "user", content |-> text, metadata |-> NoMetadata]
AssistantMessage(text, meta) ==
    [role |-> "assistant", content |-> text, metadata |-> meta]

\* ------------------------------------------------------- inbound payloads
\* raw = "text": not JSON; raw = "null": the JSON value null; raw = "object"
Payload(raw, type, text, meta) ==
    [raw |-> raw, type |-> type, text |-> text, metadata |-> meta]

FrameTypes == {"ping", "status", "processing_status", "message", "error"}

\* metadata?: { platform?: string }, carried by message frames
FrameMetadata(t) ==
    IF t = "message" THEN [error |-> FALSE, platform |-> "General"] ELSE NoMetadata

Payloads ==
    {Payload("text", "", <<>>, NoMetadata), Payload("null", "", <<>>, NoMetadata)}
    \cup {Payload("object", t, <<"ok">>, FrameMetadata(t)) : t \in FrameTypes}

\* JSON.parse(event.data) followed by the read of data.type: throws on a payload
\* that is not JSON (SyntaxError) and on null (TypeError)
ParseThrows(p) == p.raw # "object"

\* the frame type each component treats as a progress note
StatusType(v) == IF v = "A" THEN "processing_status" ELSE "status"

\* ----------------------------------------------------------------- state
VARIABLES
    variant,              \* which ChatInterface component is mounted
    view,                 \* "rendered" (before the mount effect), "mounted", "unmounted"
    messages,             \* useState<Message[]>([])
    input,                \* useState('')
    isConnected,          \* useState(false)
    isLoading,            \* useState(false)
    reconnectAttempts,    \* useState(0)
    processingStatuses,   \* useState<ProcessingStatus[]>([]): the texts, in order
    wsRef,                \* useRef<WebSocket | null>(null): a socket id, 0 for null
    reconnectTimeoutRef,  \* useRef<NodeJS.Timeout>(): a timer id, 0 for undefined
    sockets,              \* the WebSocket objects not yet CLOSED: id -> record
    timers,               \* the setTimeout callbacks not yet run or cleared: id -> record
    nextSocket,           \* id of the next WebSocket created
    nextTimer,            \* id of the next timer set
    sent,                 \* the frames given to ws.send, in order
    last,                 \* history: the step just taken
    hist,                 \* history: what has happened so far; inFlight: a frame was
                          \* transmitted and no message or error frame has come since
    scope,                \* the bounds of the behaviour: the sockets and timers it may
                          \* create and the value reconnectAttempts may reach
    form,                 \* which QuestionnaireForm is rendered, NoForm when none is
    route,                \* "questionnaire" until router.push('/'), then "home"
    currentQuestion,      \* QuestionnaireForm state: index into QUESTIONS
    answers,              \* QuestionnaireForm state: key -> text
    error,                \* QuestionnaireForm state: the message shown
    pending,              \* submitQuestionnaire calls awaiting their response
    submitted,            \* the argument of the latest submitQuestionnaire call
    entered               \* history: question index -> the text last typed for it

vars == <<variant, view, messages, input, isConnected, isLoading, reconnectAttempts,
          processingStatuses, wsRef, reconnectTimeoutRef, sockets, timers,
          nextSocket, nextTimer, sent, last, hist, scope,
          form, route, currentQuestion, answers, error, pending, submitted, entered>>

chatVars == <<variant, view, messages, input, isConnected, isLoading, reconnectAttempts,
              processingStatuses, wsRef, reconnectTimeoutRef, sockets, timers,
              nextSocket, nextTimer, sent, hist, scope>>

formVars == <<form, route, currentQuestion, answers, error, pending, submitted, entered>>

uiVars == <<messages, input, isLoading, processingStatuses, sent>>

\* ------------------------------------------------- sockets, timers, refs
NoSockets == [i \in {} |-> 0]
NoTimers == [i \in {} |-> 0]

\* the refs, the sockets and the timers as one value k, so that the calls a
\* handler makes compose
Net == [wsRef |-> wsRef, ref |-> reconnectTimeoutRef, sockets |-> sockets,
        timers |-> timers, nextSocket |-> nextSocket, nextTimer |-> nextTimer]

SetNet(k) ==
    /\ wsRef' = k.wsRef
    /\ reconnectTimeoutRef' = k.ref
    /\ sockets' = k.sockets
    /\ timers' = k.timers
    /\ nextSocket' = k.nextSocket
    /\ nextTimer' = k.nextTimer

Without(f, x) == [i \in DOMAIN f \ {x} |-> f[i]]
With(f, x, v) == [i \in DOMAIN f \cup {x} |-> IF i = x THEN v ELSE f[i]]

\* ws.readyState; a socket whose close event was delivered is CLOSED
ReadyState(k, id) ==
    IF id \in DOMAIN k.sockets THEN k.sockets[id].readyState ELSE "CLOSED"

\* wsRef.current?.readyState: undefined when the ref is null
RefReadyState(k) == IF k.wsRef = 0 THEN "undefined" ELSE ReadyState(k, k.wsRef)

\* WebSocket.close(code): nothing on a CLOSING or CLOSED socket; a socket still
\* CONNECTING fails, and its close event reports 1006; an OPEN socket starts the
\* closing handshake, and its close event reports the code given
WsClose(k, id, code) ==
    IF ReadyState(k, id) = "CONNECTING"
    THEN [k EXCEPT !.sockets[id].readyState = "CLOSING",
                   !.sockets[id].closeCode = ABNORMAL_CLOSURE]
    ELSE IF ReadyState(k, id) = "OPEN"
    THEN [k EXCEPT !.sockets[id].readyState = "CLOSING",
                   !.sockets[id].closeCode = code]
    ELSE k

\* clearTimeout(id)
ClearTimeout(k, id) == [k EXCEPT !.timers = Without(k.timers, id)]

\* new WebSocket(url) with the four handlers attached; the handlers close over
\* the reconnectAttempts of the connectWebSocket that runs: att
NewWebSocket(k, att) ==
    [k EXCEPT !.sockets = With(k.sockets, k.nextSocket,
                               [readyState |-> "CONNECTING", attempts |-> att,
                                closeCode |-> 0]),
              !.wsRef = k.nextSocket,
              !.nextSocket = k.nextSocket + 1]

\* connectWebSocket of ChatInterface.tsx, of the render with reconnectAttempts = att
ConnectWebSocketA(k, att) ==
    LET k1 == IF k.ref # 0
              THEN [ClearTimeout(k, k.ref) EXCEPT !.ref = 0]
              ELSE k
    IN  IF RefReadyState(k1) = "OPEN" THEN k1
        ELSE IF RefReadyState(k1) = "CONNECTING" THEN k1
        ELSE LET k2 == IF k1.wsRef # 0
                       THEN [WsClose(k1, k1.wsRef, 1005) EXCEPT !.wsRef = 0]
                       ELSE k1
             IN  NewWebSocket(k2, att)

\* connectWebSocket of part_003 without the CONNECTING half of its guard
ConnectWebSocketCOpenOnly(k, att) ==
    IF RefReadyState(k) = "OPEN" THEN k ELSE NewWebSocket(k, att)

\* connectWebSocket of part_003
ConnectWebSocketC(k, att) ==
    IF RefReadyState(k) \in {"CONNECTING", "OPEN"} THEN k
    ELSE NewWebSocket(k, att)

ConnectWebSocket(v, k, att) ==
    IF v = "A" THEN ConnectWebSocketA(k, att) ELSE ConnectWebSocketC(k, att)

\* the cleanup function the mount effect returns
CleanupA(k) ==
    LET k1 == IF k.ref # 0 THEN ClearTimeout(k, k.ref) ELSE k
    IN  IF k1.wsRef # 0
        THEN [WsClose(k1, k1.wsRef, NORMAL_CLOSURE) EXCEPT !.wsRef = 0]
        ELSE k1

CleanupC(k) ==
    IF k.wsRef # 0
    THEN [WsClose(k, k.wsRef, NORMAL_CLOSURE) EXCEPT !.wsRef = 0]
    ELSE k

Cleanup(v, k) == IF v = "A" THEN CleanupA(k) ELSE CleanupC(k)

\* the mount effect run again because connectWebSocket changed: the cleanup of
\* the previous run, then connectWebSocket of the new render (isVisible is
\* never passed by a page, so it is true)
EffectRerun(v, k, att) == ConnectWebSocket(v, Cleanup(v, k), att)

\* the re-render after a step that took reconnectAttempts from `old` to `new`
Rerender(v, k, old, new) == IF old # new THEN EffectRerun(v, k, new) ELSE k

RECURSIVE Pow2(_)
Pow2(n) == IF n = 0 THEN 1 ELSE 2 * Pow2(n - 1)

Min(a, b) == IF a < b THEN a ELSE b

\* ReconnectDelay without the backoff: the base delay for every attempt
ReconnectDelayFlat(v, att) == BASE_DELAY

\* the delay given to setTimeout in ws.onclose
ReconnectDelay(v, att) ==
    IF v = "A" THEN Min(BASE_DELAY * Pow2(att), MAX_DELAY) ELSE BASE_DELAY * Pow2(att)

\* ShouldReconnect without the test of event.code
ShouldReconnectAnyCode(code, att) == att < RETRY_CEILING

\* the condition of ws.onclose under which a reconnect is scheduled
ShouldReconnect(code, att) == code # NORMAL_CLOSURE /\ att < RETRY_CEILING

\* setTimeout(() => { setReconnectAttempts(prev => prev + 1); connectWebSocket(); }, delay)
\* ChatInterface.tsx keeps the timer id in reconnectTimeoutRef, part_003 drops it
SetReconnectTimeout(v, k, att) ==
    [k EXCEPT !.timers = With(k.timers, k.nextTimer,
                              [attempts |-> att, delay |-> ReconnectDelay(v, att)]),
              !.ref = IF v = "A" THEN k.nextTimer ELSE k.ref,
              !.nextTimer = k.nextTimer + 1]

\* ws.onclose of socket id, the refs and timers: the socket is CLOSED, the ref is
\* nulled whichever socket it holds, and a reconnect is scheduled or not
OnCloseNet(v, k, id, code) ==
    LET att == k.sockets[id].attempts
        k1 == [k EXCEPT !.sockets = Without(k.sockets, id), !.wsRef = 0]
    IN  IF ShouldReconnect(code, att) THEN SetReconnectTimeout(v, k1, att) ELSE k1

Step(op, code, type, early) == [op |-> op, code |-> code, type |-> type, early |-> early]

\* ------------------------------------------------------ the questionnaire
\* The two ways QuestionnaireForm is written: "byId" keeps the answers under
\* QUESTIONS[i].id (part_001, and part_002 from line 191), "byIndex" under
\* the index currentQuestion (part_002 up to line 189).
Forms == {"byId", "byIndex"}
NoForm == "none"

\* the ids of the six questions, in order
QUESTIONS == <<1, 2, 3, 4, 5, 6>>

\* the fields of the submitted object, in order
FIELDS == <<"raw_brand_name", "raw_industry_focus", "raw_target_audience",
            "raw_unique_value", "raw_social_platforms", "raw_successful_content">>

\* what the user types into the textarea of question index i
AnswerWords == <<"brand", "industry", "audience", "value", "platforms", "content">>
AnswerTexts(i) == {<<>>, <<SP>>, <<SP, AnswerWords[i + 1]>>}
AllAnswerTexts == UNION {AnswerTexts(i) : i \in 0..(Len(QUESTIONS) - 1)}

PleaseAnswer == "Please provide an answer before continuing"
FailedToSubmit == "Failed to submit answers. Please try again."
NoSubmission == <<>>

\* the key under which the answer to question index i is kept
AnswerKey(f, i) == IF f = "byId" THEN QUESTIONS[i + 1] ELSE i

\* answers[k]: <<text>>, or <<>> for undefined
Stored(a, k) == IF k \in DOMAIN a THEN <<a[k]>> ELSE <<>>

\* !answers[k]?.trim() that tests the text as typed
UnansweredUntrimmed(a, k) == k \notin DOMAIN a \/ a[k] = <<>>

\* !answers[k]?.trim()
Unanswered(a, k) == k \notin DOMAIN a \/ Trim(a[k]) = <<>>

\* the textarea's value for question index i: answers[key] || ''
TextareaValue(f, a, i) ==
    IF AnswerKey(f, i) \in DOMAIN a THEN a[AnswerKey(f, i)] ELSE <<>>

\* questionnaireData: the k-th element is the value of the field FIELDS[k]
QuestionnaireData(f, a) ==
    [k \in 1..Len(FIELDS) |-> Stored(a, IF f = "byId" THEN QUESTIONS[k] ELSE k)]

QuestionnaireInit(f, r) ==
    /\ form = f
    /\ route = r
    /\ currentQuestion = 0
    /\ answers = <<>>
    /\ error = ""
    /\ pending = 0
    /\ submitted = NoSubmission
    /\ entered = <<>>

\* ------------------------------------------------------------------ Init
ChatInit(sc) ==
    /\ scope = sc
    /\ variant \in Variants
    /\ view = "rendered"
    /\ messages = <<>>
    /\ input = <<>>
    /\ isConnected = FALSE
    /\ isLoading = FALSE
    /\ reconnectAttempts = 0
    /\ processingStatuses = <<>>
    /\ wsRef = 0
    /\ reconnectTimeoutRef = 0
    /\ sockets = NoSockets
    /\ timers = NoTimers
    /\ nextSocket = 1
    /\ nextTimer = 1
    /\ sent = <<>>
    /\ last = Step("init", 0, "", FALSE)
    /\ hist = [opened |-> FALSE, unmountTimers |-> {}, unmountSockets |-> 0,
               inFlight |-> FALSE]

\* the chat with no questionnaire page open
InitWith(sc) == ChatInit(sc) /\ QuestionnaireInit(NoForm, "home")

\* the component as constructed, the chat explored over MaxSockets sockets
Init == InitWith([sockets |-> MaxSockets, timers |-> MaxTimers, attempts |-> MaxAttempts])

\* --------------------------------------------------------------- actions
\* the mount effect's first run: connectWebSocket()
Mount ==
    /\ view = "rendered"
    /\ view' = "mounted"
    /\ SetNet(ConnectWebSocket(variant, Net, reconnectAttempts))
    /\ last' = Step("mount", 0, "", FALSE)
    /\ UNCHANGED <<formVars, scope, variant, isConnected, reconnectAttempts, hist>>
    /\ UNCHANGED uiVars

\* the initial values of the useState hooks
InitialUi == [messages |-> <<>>, input |-> <<>>, isLoading |-> FALSE,
              processingStatuses |-> <<>>]

\* the view is removed: the effect's cleanup runs, and the state of the hooks is
\* discarded with the component (from here on it reads as the initial values;
\* the setters of an unmounted component do nothing)
Unmount ==
    /\ view = "mounted"
    /\ view' = "unmounted"
    /\ SetNet(Cleanup(variant, Net))
    /\ messages' = InitialUi.messages
    /\ input' = InitialUi.input
    /\ isLoading' = InitialUi.isLoading
    /\ processingStatuses' = InitialUi.processingStatuses
    /\ isConnected' = FALSE
    /\ reconnectAttempts' = 0
    /\ last' = Step("unmount", 0, "", FALSE)
    /\ hist' = [hist EXCEPT !.unmountTimers = DOMAIN timers,
                            !.unmountSockets = nextSocket,
                            !.inFlight = FALSE]
    /\ UNCHANGED <<formVars, scope, variant, sent>>

\* ws.onopen of socket id.  After unmount the setters do nothing.
OnOpen(id) ==
    /\ id \in DOMAIN sockets
    /\ sockets[id].readyState = "CONNECTING"
    /\ nextSocket <= scope.sockets
    /\ LET k1 == [Net EXCEPT !.sockets[id].readyState = "OPEN"]
       IN  IF view = "mounted"
           THEN /\ isConnected' = TRUE
                /\ reconnectAttempts' = 0
                /\ SetNet(Rerender(variant, k1, reconnectAttempts, 0))
           ELSE /\ SetNet(k1)
                /\ UNCHANGED <<isConnected, reconnectAttempts>>
    /\ last' = Step("open", 0, "", FALSE)
    /\ hist' = [hist EXCEPT !.opened = TRUE]
    /\ UNCHANGED <<formVars, scope, variant, view>>
    /\ UNCHANGED uiVars

\* the close codes the close event of socket id can carry: the one its own
\* close() call fixed; 1006 for a connection that never opened; for an open
\* connection whatever the server or the transport ends it with
CloseCodes(id) ==
    IF sockets[id].readyState = "CLOSING" THEN {sockets[id].closeCode}
    ELSE IF sockets[id].readyState = "CONNECTING" THEN {ABNORMAL_CLOSURE}
    ELSE {NORMAL_CLOSURE, ABNORMAL_CLOSURE, SERVER_ERROR}

\* the close event of socket id with event.code = code; an abnormal end fires
\* ws.onerror first, which only calls setIsConnected(false)
OnClose(id, code) ==
    /\ id \in DOMAIN sockets
    /\ code \in CloseCodes(id)
    /\ nextTimer <= scope.timers
    /\ SetNet(OnCloseNet(variant, Net, id, code))
    /\ isConnected' = IF view = "mounted" THEN FALSE ELSE isConnected
    /\ last' = Step("close", code, "", FALSE)
    /\ UNCHANGED <<formVars, scope, variant, view, reconnectAttempts, hist>>
    /\ UNCHANGED uiVars

\* the reconnect timer t fires: setReconnectAttempts(prev => prev + 1), then
\* connectWebSocket() of the render that made the socket whose onclose set the timer
TimerFires(t) ==
    /\ t \in DOMAIN timers
    /\ reconnectAttempts < scope.attempts
    /\ nextSocket + 1 <= scope.sockets
    /\ LET k0 == ClearTimeout(Net, t)
           att == timers[t].attempts
           k1 == ConnectWebSocket(variant, k0, att)
       IN  /\ IF view = "mounted"
              THEN /\ reconnectAttempts' = reconnectAttempts + 1
                   /\ SetNet(Rerender(variant, k1, reconnectAttempts,
                                      reconnectAttempts + 1))
              ELSE /\ SetNet(k1)
                   /\ UNCHANGED reconnectAttempts
           /\ last' = Step("timer", 0, "",
                           RefReadyState(k0) \in {"CONNECTING", "OPEN"})
    /\ UNCHANGED <<formVars, scope, variant, view, isConnected, hist>>
    /\ UNCHANGED uiVars

\* the props of the component
articleId == "a1"
brandId == "b1"

\* JSON.stringify({message, article_id, brand_id, platform}) given to socket id
OutboundFrame(id, text) ==
    [socket |-> id, message |-> text, article_id |-> articleId,
     brand_id |-> brandId, platform |-> "General"]

\* the React state a handler reads and sets, as one value u
Ui == [messages |-> messages, input |-> input, isLoading |-> isLoading,
       processingStatuses |-> processingStatuses, sent |-> sent]

SetUi(u) ==
    /\ messages' = u.messages
    /\ input' = u.input
    /\ isLoading' = u.isLoading
    /\ processingStatuses' = u.processingStatuses
    /\ sent' = u.sent

WithinUiBounds(u) ==
    /\ Len(u.messages) <= MaxMessages
    /\ Len(u.processingStatuses) <= MaxStatuses
    /\ Len(u.sent) <= MaxSent

\* OnMessageA without setProcessingStatuses([]) on a message frame
OnMessageAKeepStatuses(u, p) ==
    IF ParseThrows(p) THEN u
    ELSE IF p.type = "ping" THEN u
    ELSE LET u1 == [u EXCEPT !.isLoading = FALSE]
         IN  IF p.type = "processing_status"
             THEN [u1 EXCEPT !.processingStatuses = Append(@, p.text)]
             ELSE IF p.type = "message"
             THEN [u1 EXCEPT !.messages = Append(@, AssistantMessage(p.text, p.metadata))]
             ELSE IF p.type = "error"
             THEN [u1 EXCEPT !.messages =
                       Append(@, AssistantMessage(ErrorPrefix \o p.text, ErrorMetadata))]
             ELSE u1

\* ws.onmessage of ChatInterface.tsx on event.data = p
OnMessageA(u, p) ==
    IF ParseThrows(p) THEN u                                \* catch: debugLog only
    ELSE IF p.type = "ping" THEN u
    ELSE LET u1 == [u EXCEPT !.isLoading = FALSE]
         IN  IF p.type = "processing_status"
             THEN [u1 EXCEPT !.processingStatuses = Append(@, p.text)]
             ELSE IF p.type = "message"
             THEN [u1 EXCEPT !.processingStatuses = <<>>,
                             !.messages = Append(@, AssistantMessage(p.text, p.metadata))]
             ELSE IF p.type = "error"
             THEN [u1 EXCEPT !.messages =
                       Append(@, AssistantMessage(ErrorPrefix \o p.text, ErrorMetadata))]
             ELSE u1

\* OnMessageC appending the content of a message frame without its metadata
OnMessageCNoMetadata(u, p) ==
    IF ParseThrows(p)
    THEN [u EXCEPT !.processingStatuses = <<>>,
                   !.messages = Append(@, AssistantMessage(FailedToProcess, ErrorMetadata))]
    ELSE IF p.type = "ping" THEN u
    ELSE LET u1 == [u EXCEPT !.isLoading = FALSE]
         IN  IF p.type = "status"
             THEN [u1 EXCEPT !.processingStatuses = Append(@, p.text)]
             ELSE IF p.type = "message"
             THEN [u1 EXCEPT !.processingStatuses = <<>>,
                             !.messages = Append(@, AssistantMessage(p.text, NoMetadata))]
             ELSE IF p.type = "error"
             THEN [u1 EXCEPT !.processingStatuses = <<>>,
                             !.messages =
                       Append(@, AssistantMessage(ErrorPrefix \o p.text, ErrorMetadata))]
             ELSE u1

\* ws.onmessage of part_003 on event.data = p
OnMessageC(u, p) ==
    IF ParseThrows(p)
    THEN [u EXCEPT !.processingStatuses = <<>>,
                   !.messages = Append(@, AssistantMessage(FailedToProcess, ErrorMetadata))]
    ELSE IF p.type = "ping" THEN u
    ELSE LET u1 == [u EXCEPT !.isLoading = FALSE]
         IN  IF p.type = "status"
             THEN [u1 EXCEPT !.processingStatuses = Append(@, p.text)]
             ELSE IF p.type = "message"
             THEN [u1 EXCEPT !.processingStatuses = <<>>,
                             !.messages = Append(@, AssistantMessage(p.text, p.metadata))]
             ELSE IF p.type = "error"
             THEN [u1 EXCEPT !.processingStatuses = <<>>,
                             !.messages =
                       Append(@, AssistantMessage(ErrorPrefix \o p.text, ErrorMetadata))]
             ELSE u1

\* OnMessageHandler with a ping that clears the loading flag
OnMessageHandlerPingClears(v, u, p) ==
    IF ~ParseThrows(p) /\ p.type = "ping" THEN [u EXCEPT !.isLoading = FALSE]
    ELSE IF v = "A" THEN OnMessageA(u, p) ELSE OnMessageC(u, p)

OnMessageHandler(v, u, p) == IF v = "A" THEN OnMessageA(u, p) ELSE OnMessageC(u, p)

\* a frame that ends a request: { type: "message" } or { type: "error" }
IsTerminalFrame(p) == ~ParseThrows(p) /\ p.type \in {"message", "error"}

\* a message event on socket id (delivered while the socket is OPEN); after
\* unmount the setters do nothing
OnMessage(id, p) ==
    /\ view = "mounted"
    /\ id \in DOMAIN sockets
    /\ sockets[id].readyState = "OPEN"
    /\ LET u == OnMessageHandler(variant, Ui, p)
       IN  /\ WithinUiBounds(u)
           /\ SetUi(u)
    /\ last' = Step("message", 0, IF ParseThrows(p) THEN "unparsable" ELSE p.type, FALSE)
    /\ hist' = [hist EXCEPT !.inFlight = @ /\ ~IsTerminalFrame(p)]
    /\ UNCHANGED <<formVars, scope, variant, view, isConnected, reconnectAttempts, wsRef,
                   reconnectTimeoutRef, sockets, timers, nextSocket, nextTimer>>

\* the guard at the head of sendMessage in ChatInterface.tsx
SendPrevented(u, k, connected) ==
    \/ Trim(u.input) = <<>>
    \/ k.wsRef = 0
    \/ ~connected
    \/ u.isLoading

\* Transmit putting the user message at the head of the transcript
TransmitPrepend(u, k) ==
    [u EXCEPT !.sent = Append(@, OutboundFrame(k.wsRef, Trim(u.input))),
              !.messages = <<UserMessage(Trim(u.input))>> \o @,
              !.input = <<>>]

\* the try block of sendMessage when the socket is OPEN
Transmit(u, k) ==
    [u EXCEPT !.sent = Append(@, OutboundFrame(k.wsRef, Trim(u.input))),
              !.messages = Append(@, UserMessage(Trim(u.input))),
              !.input = <<>>]

\* the catch block of sendMessage
SendFailed(u) ==
    [u EXCEPT !.messages = Append(@, AssistantMessage(FailedToSend, ErrorMetadata))]

\* sendMessage of ChatInterface.tsx: the React state after it
SendMessageUiA(u, k, connected) ==
    IF SendPrevented(u, k, connected) THEN u
    ELSE IF RefReadyState(k) = "OPEN"
    THEN [Transmit(u, k) EXCEPT !.isLoading = TRUE]
    ELSE [SendFailed(u) EXCEPT !.isLoading = FALSE]

\* sendMessage of ChatInterface.tsx: the refs and sockets after it
SendMessageNetA(u, k, connected, att) ==
    IF ~SendPrevented(u, k, connected) /\ RefReadyState(k) # "OPEN"
    THEN ConnectWebSocketA(k, att)
    ELSE k

\* SendMessageUiC without the test of wsRef.current?.readyState
SendMessageUiCAnyState(u, k) == [Transmit(u, k) EXCEPT !.isLoading = FALSE]

\* sendMessage of part_003: no guard; finally { setIsLoading(false) }
SendMessageUiC(u, k) ==
    IF RefReadyState(k) = "OPEN"
    THEN [Transmit(u, k) EXCEPT !.isLoading = FALSE]
    ELSE [SendFailed(u) EXCEPT !.isLoading = FALSE]

SendMessageUi(v, u, k, connected) ==
    IF v = "A" THEN SendMessageUiA(u, k, connected) ELSE SendMessageUiC(u, k)

SendMessageNet(v, u, k, connected, att) ==
    IF v = "A" THEN SendMessageNetA(u, k, connected, att) ELSE k

\* the user types `text` into the input box (onChange: setInput) and calls
\* sendMessage(), from the Send button or the Enter key (the Enter key calls
\* it whatever the input and the flags are)
SendMessage(text) ==
    /\ view = "mounted"
    /\ nextSocket <= scope.sockets
    /\ LET u0 == [Ui EXCEPT !.input = text]
           u == SendMessageUi(variant, u0, Net, isConnected)
           k == SendMessageNet(variant, u0, Net, isConnected, reconnectAttempts)
       IN  /\ WithinUiBounds(u)
           /\ SetUi(u)
           /\ SetNet(k)
           /\ last' = Step("send", 0,
                           IF Trim(text) = <<>> THEN "blank" ELSE "text",
                           variant = "A"
                             /\ ~SendPrevented(u0, Net, isConnected)
                             /\ RefReadyState(Net) = "CONNECTING")
           /\ hist' = [hist EXCEPT !.inFlight = @ \/ u.sent # sent]
    /\ UNCHANGED <<formVars, scope, variant, view, isConnected, reconnectAttempts>>

Next ==
    \/ Mount
    \/ Unmount
    \/ \E id \in 1..MaxSockets : OnOpen(id)
    \/ \E id \in 1..MaxSockets, code \in {NORMAL_CLOSURE, ABNORMAL_CLOSURE, SERVER_ERROR} :
          OnClose(id, code)
    \/ \E t \in 1..MaxTimers : TimerFires(t)
    \/ \E id \in 1..MaxSockets, p \in Payloads : OnMessage(id, p)
    \/ \E text \in InputTexts : SendMessage(text)

Spec == Init /\ [][Next]_vars

\* the connection lifecycle of a view that stays mounted (nothing typed, no
\* frame received), explored over MaxRetrySockets sockets
RetryInit == InitWith([sockets |-> MaxRetrySockets, timers |-> MaxRetryTimers,
                       attempts |-> MaxAttempts])

\* (a close with code 1011 is handled as one with 1006 is)
RetryNext ==
    \/ Mount
    \/ \E id \in 1..MaxRetrySockets : OnOpen(id)
    \/ \E id \in 1..MaxRetrySockets,
           code \in {NORMAL_CLOSURE, ABNORMAL_CLOSURE} : OnClose(id, code)
    \/ \E t \in 1..MaxRetryTimers : TimerFires(t)

\* a timer that is set and not cleared fires: the event loop runs its callback
RetrySpec ==
    /\ RetryInit
    /\ [][RetryNext]_vars
    /\ WF_vars(\E t \in 1..MaxRetryTimers : TimerFires(t))

\* the reconnect cycle with room for a fourth increment of reconnectAttempts
DeepInit == InitWith([sockets |-> MaxDeepSockets, timers |-> MaxDeepTimers,
                      attempts |-> MaxDeepAttempts])

DeepNext ==
    \/ Mount
    \/ \E id \in 1..MaxDeepSockets : OnOpen(id)
    \/ \E id \in 1..MaxDeepSockets,
           code \in {NORMAL_CLOSURE, ABNORMAL_CLOSURE} : OnClose(id, code)
    \/ \E t \in 1..MaxDeepTimers : TimerFires(t)

DeepSpec == DeepInit /\ [][DeepNext]_vars

\* ---------------------------------------------- the questionnaire's actions
\* onChange of the textarea: the user has changed its text to `text`
handleAnswer(text) ==
    /\ form \in Forms
    /\ route = "questionnaire"
    /\ text \in AnswerTexts(currentQuestion)
    /\ text # TextareaValue(form, answers, currentQuestion)
    /\ answers' = With(answers, AnswerKey(form, currentQuestion), text)
    /\ error' = ""
    /\ entered' = With(entered, currentQuestion, text)
    /\ last' = Step("answer", 0, "", FALSE)
    /\ UNCHANGED <<form, route, currentQuestion, pending, submitted>>
    /\ UNCHANGED chatVars

\* onClick of the Next / Complete button
goToNextQuestion ==
    /\ form \in Forms
    /\ route = "questionnaire"
    /\ IF Unanswered(answers, AnswerKey(form, currentQuestion))
       THEN /\ error' = PleaseAnswer
            /\ UNCHANGED <<currentQuestion, pending, submitted>>
       ELSE IF currentQuestion = Len(QUESTIONS) - 1
            THEN /\ pending < MaxPending
                 /\ pending' = pending + 1
                 /\ submitted' = QuestionnaireData(form, answers)
                 /\ UNCHANGED <<currentQuestion, error>>
            ELSE /\ currentQuestion' = currentQuestion + 1
                 /\ UNCHANGED <<error, pending, submitted>>
    /\ last' = Step("next", 0, "", FALSE)
    /\ UNCHANGED <<form, route, answers, entered>>
    /\ UNCHANGED chatVars

\* onClick of the Previous button, which is disabled on the first question
goToPreviousQuestion ==
    /\ form \in Forms
    /\ route = "questionnaire"
    /\ currentQuestion > 0
    /\ currentQuestion' = currentQuestion - 1
    /\ last' = Step("previous", 0, "", FALSE)
    /\ UNCHANGED <<form, route, answers, error, pending, submitted, entered>>
    /\ UNCHANGED chatVars

\* brand.submitQuestionnaire resolves: router.push('/')
SubmitResolved ==
    /\ form \in Forms
    /\ pending > 0
    /\ pending' = pending - 1
    /\ route' = "home"
    /\ last' = Step("resolved", 0, "", FALSE)
    /\ UNCHANGED <<form, currentQuestion, answers, error, submitted, entered>>
    /\ UNCHANGED chatVars

\* brand.submitQuestionnaire rejects: the catch block sets the error
SubmitRejected ==
    /\ form \in Forms
    /\ pending > 0
    /\ pending' = pending - 1
    /\ error' = IF route = "questionnaire" THEN FailedToSubmit ELSE error
    /\ last' = Step("rejected", 0, "", FALSE)
    /\ UNCHANGED <<form, route, currentQuestion, answers, submitted, entered>>
    /\ UNCHANGED chatVars

\* the questionnaire page with either form, the chat not mounted
FormInit ==
    /\ ChatInit([sockets |-> MaxSockets, timers |-> MaxTimers, attempts |-> MaxAttempts])
    /\ variant = "A"
    /\ \E f \in Forms : QuestionnaireInit(f, "questionnaire")

FormNext ==
    \/ \E text \in AllAnswerTexts : handleAnswer(text)
    \/ goToNextQuestion
    \/ goToPreviousQuestion
    \/ SubmitResolved
    \/ SubmitRejected

FormSpec == FormInit /\ [][FormNext]_vars

\* ================================================================ claims
\* sockets of the view that are CONNECTING or OPEN
LiveSockets == {id \in DOMAIN sockets : sockets[id].readyState \in {"CONNECTING", "OPEN"}}

\* close events delivered so far
ClosedSockets == (nextSocket - 1) - Cardinality(DOMAIN sockets)

IsPrefix(a, b) == Len(a) <= Len(b) /\ SubSeq(b, 1, Len(a)) = a

\* C1: while the view stays mounted and no socket ever opened (every close is
\* then abnormal), reconnectAttempts never passes 3 and, once four sockets have
\* closed, no reconnect timer is pending.
C1_RetryCeiling ==
    (view = "mounted" /\ ~hist.opened) =>
        /\ reconnectAttempts <= RETRY_CEILING
        /\ ClosedSockets >= 4 => DOMAIN timers = {}

\* C2: a close event with code 1000 sets no reconnect timer and creates no
\* socket, whatever reconnectAttempts is.
C2_NormalCloseNoReconnect ==
    [][(last'.op = "close" /\ last'.code = NORMAL_CLOSURE) =>
           /\ timers' = timers
           /\ nextTimer' = nextTimer
           /\ reconnectTimeoutRef' = reconnectTimeoutRef
           /\ nextSocket' = nextSocket]_vars

\* a mounted view has just handled a close event with code 1000
C2_Witness ==
    /\ view = "mounted"
    /\ last.op = "close"
    /\ last.code = NORMAL_CLOSURE

\* C3: after an unmount with a reconnect timer pending, none of the timers that
\* were pending is still pending and no socket has been created since.
C3_UnmountCancelsTimer ==
    (view = "unmounted" /\ hist.unmountTimers # {}) =>
        /\ hist.unmountTimers \cap DOMAIN timers = {}
        /\ nextSocket = hist.unmountSockets

\* C4: a mounted view has at most one socket that is CONNECTING or OPEN.
C4_OneLiveConnection == view = "mounted" => Cardinality(LiveSockets) <= 1

\* C5: connectWebSocket called while the socket in wsRef is CONNECTING or OPEN
\* creates no socket, closes none and leaves wsRef as it is; and a second
\* connectWebSocket right after a first changes nothing the first did not.
C5_ConnectIdempotent ==
    \A att \in 0..MaxAttempts :
        LET k1 == ConnectWebSocket(variant, Net, att)
            k2 == ConnectWebSocket(variant, k1, att)
        IN  /\ RefReadyState(Net) \in {"CONNECTING", "OPEN"} =>
                  /\ k1.wsRef = wsRef
                  /\ k1.sockets = sockets
                  /\ k1.nextSocket = nextSocket
            /\ k2.nextSocket = k1.nextSocket
            /\ k2.sockets = k1.sockets
            /\ k2.wsRef = k1.wsRef

\* connectWebSocket has just been called with a CONNECTING or OPEN socket in wsRef
C5_Witness == last.early

\* C6: sendMessage with an input that trims to nothing transmits no frame and
\* appends no user message.
C6_BlankSendDoesNothing ==
    [][(last'.op = "send" /\ last'.type = "blank") =>
           /\ sent' = sent
           /\ \/ messages' = messages
              \/ messages'[Len(messages')].role # "user"]_vars

\* C7: every step of a mounted view keeps the transcript as a prefix of the new
\* one and adds at most one entry, at the end: the assistant message of the
\* message or error frame just received, or the user message of the frame just sent.
C7_TranscriptAppendOnly ==
    [][view' = "mounted" =>
           /\ IsPrefix(messages, messages')
           /\ Len(messages') <= Len(messages) + 1
           /\ (last'.op = "message" /\ last'.type \in {"message", "error"}) =>
                  /\ Len(messages') = Len(messages) + 1
                  /\ messages'[Len(messages')].role = "assistant"
           /\ (last'.op = "send" /\ sent' # sent) =>
                  /\ Len(messages') = Len(messages) + 1
                  /\ messages'[Len(messages')] = UserMessage(sent'[Len(sent')].message)
           /\ last'.op \notin {"message", "send"} => messages' = messages]_vars

\* a reply has been appended after the user message it answers
C7_Witness ==
    /\ last.op = "message"
    /\ Len(messages) = 2
    /\ messages[1].role = "user"
    /\ messages[2].role = "assistant"

\* C8: a non-empty processing-status list stays non-empty until a message or
\* error frame arrives, and that frame leaves it empty.
C8_StatusesUntilTerminalFrame ==
    /\ [][(last'.op = "message" /\ last'.type \in {"message", "error"}) =>
              processingStatuses' = <<>>]_vars
    /\ [][(processingStatuses # <<>>
             /\ ~(last'.op = "message" /\ last'.type \in {"message", "error"})) =>
              processingStatuses' # <<>>]_vars

\* C9: from an empty transcript a successful send of input t leaves the transcript
\* [user trim(t)] with that text in the frame; status frames then leave the
\* transcript alone; the message frame with content c that follows makes the
\* transcript [user trim(t), assistant c], the status list empty and loading false.
C9_RequestResponseRound ==
    /\ [](\A text \in InputTexts :
            LET u == SendMessageUi(variant, [Ui EXCEPT !.input = text], Net, isConnected)
            IN  (view = "mounted" /\ messages = <<>> /\ u.sent # sent) =>
                    /\ u.messages = <<UserMessage(Trim(text))>>
                    /\ u.sent = Append(sent, OutboundFrame(wsRef, Trim(text))))
    /\ [][(last'.op = "message" /\ last'.type = StatusType(variant)) =>
              /\ messages' = messages
              /\ processingStatuses' # <<>>]_vars
    /\ [][(Len(messages) = 1 /\ messages[1].role = "user"
             /\ last'.op = "message" /\ last'.type = "message") =>
              /\ Len(messages') = 2
              /\ messages'[1] = messages[1]
              /\ messages'[2].role = "assistant"
              /\ messages'[2].content = <<"ok">>
              /\ processingStatuses' = <<>>
              /\ isLoading' = FALSE]_vars

\* the round is complete: the user text, then the reply, nothing pending
C9_Witness ==
    /\ last.op = "message"
    /\ last.type = "message"
    /\ messages = <<UserMessage(<<"hi">>),
                    AssistantMessage(<<"ok">>, FrameMetadata("message"))>>
    /\ processingStatuses = <<>>
    /\ ~isLoading

\* C10: a payload that cannot be parsed appends exactly one assistant message
\* with metadata error = true and leaves the socket OPEN and current.
C10_ParseFailureSurfaced ==
    [][(last'.op = "message" /\ last'.type = "unparsable") =>
           /\ Len(messages') = Len(messages) + 1
           /\ IsPrefix(messages, messages')
           /\ messages'[Len(messages')].role = "assistant"
           /\ messages'[Len(messages')].metadata.error
           /\ sockets' = sockets
           /\ wsRef' = wsRef]_vars

\* C11: after the handler of a payload that cannot be parsed, the
\* processing-status list is empty and the loading flag is false.
C11_ParseFailureClearsProgress ==
    [][(last'.op = "message" /\ last'.type = "unparsable") =>
           /\ processingStatuses' = <<>>
           /\ isLoading' = FALSE]_vars

\* C12: a status frame leaves a true loading flag true, appends the text it
\* carries to the processing-status list and changes nothing else.
C12_StatusKeepsLoading ==
    [][(last'.op = "message" /\ last'.type = StatusType(variant)) =>
           /\ isLoading => isLoading'
           /\ processingStatuses' = Append(processingStatuses, <<"ok">>)
           /\ messages' = messages
           /\ input' = input
           /\ sent' = sent]_vars

\* C13: while a transmitted frame waits for its message or error frame,
\* sendMessage transmits nothing, whatever the input is.
C13_OneSendInFlight ==
    (view = "mounted" /\ hist.inFlight) =>
        \A text \in InputTexts :
            SendMessageUi(variant, [Ui EXCEPT !.input = text], Net, isConnected).sent = sent

\* a non-blank text has just been given to sendMessage, and the step sent nothing
\* and reported the failure
SendJustFailed ==
    /\ last.op = "send"
    /\ last.type = "text"
    /\ messages # <<>>
    /\ messages[Len(messages)] = AssistantMessage(FailedToSend, ErrorMetadata)

\* C14: sendMessage called while the socket in wsRef is not OPEN (or wsRef is
\* null) transmits no frame and appends no user message.
C14_SendWhileNotOpen ==
    [][(last'.op = "send" /\ RefReadyState(Net) # "OPEN") =>
           /\ sent' = sent
           /\ \/ messages' = messages
              \/ messages'[Len(messages')].role # "user"]_vars

\* sendMessage has just run on a non-blank input with no OPEN socket in wsRef
C14_Witness == SendJustFailed /\ sent = <<>>

\* C15: sendMessage on a non-blank input while the socket in wsRef is not OPEN
\* appends the "Failed to send" assistant message with error = true and calls
\* connectWebSocket: with no CONNECTING socket in wsRef, a socket is created.
C15_FailedSendRecovers ==
    [][(last'.op = "send" /\ last'.type = "text" /\ RefReadyState(Net) # "OPEN") =>
           /\ messages' = Append(messages, AssistantMessage(FailedToSend, ErrorMetadata))
           /\ RefReadyState(Net) # "CONNECTING" =>
                  /\ nextSocket' = nextSocket + 1
                  /\ RefReadyState(Net') = "CONNECTING"]_vars

\* C16: an error frame empties the processing-status list, clears the loading
\* flag and appends one assistant message with error = true holding the error
\* text; sockets, wsRef and timers are as before.
C16_ErrorFrame ==
    [][(last'.op = "message" /\ last'.type = "error") =>
           /\ processingStatuses' = <<>>
           /\ isLoading' = FALSE
           /\ messages' = Append(messages,
                                 AssistantMessage(ErrorPrefix \o <<"ok">>, ErrorMetadata))
           /\ sockets' = sockets
           /\ wsRef' = wsRef
           /\ timers' = timers
           /\ nextTimer' = nextTimer]_vars

\* C17: a message frame empties the processing-status list, clears the loading
\* flag and appends one assistant message with the content and the metadata of
\* the frame; the earlier entries of the transcript are as before.
C17_MessageFrame ==
    [][(last'.op = "message" /\ last'.type = "message") =>
           /\ processingStatuses' = <<>>
           /\ isLoading' = FALSE
           /\ messages' = Append(messages,
                                 AssistantMessage(<<"ok">>, FrameMetadata("message")))]_vars

\* a message frame has just been handled with nothing before it in the transcript
C17_Witness ==
    /\ last.op = "message"
    /\ last.type = "message"
    /\ messages = <<AssistantMessage(<<"ok">>, FrameMetadata("message"))>>

\* C18: a ping frame leaves the transcript, the processing-status list, the
\* loading flag, isConnected, reconnectAttempts and wsRef (and the sockets and
\* timers) as they are.
C18_PingChangesNothing ==
    [][(last'.op = "message" /\ last'.type = "ping") =>
           /\ messages' = messages
           /\ processingStatuses' = processingStatuses
           /\ isLoading' = isLoading
           /\ isConnected' = isConnected
           /\ reconnectAttempts' = reconnectAttempts
           /\ wsRef' = wsRef
           /\ sockets' = sockets
           /\ timers' = timers
           /\ input' = input
           /\ sent' = sent]_vars

\* a ping has just been handled while a request was loading
C18_Witness ==
    /\ last.op = "message"
    /\ last.type = "ping"
    /\ isLoading

\* C19: sendMessage on a non-blank input, with the socket in wsRef OPEN and
\* loading false, transmits one frame with the trimmed text, appends one user
\* message with that text, empties the input and leaves loading true.
C19_SuccessfulSend ==
    [][(last'.op = "send" /\ last'.type = "text" /\ RefReadyState(Net) = "OPEN"
          /\ isConnected /\ ~isLoading) =>
           /\ Len(sent') = Len(sent) + 1
           /\ SubSeq(sent', 1, Len(sent)) = sent
           /\ sent'[Len(sent')] = OutboundFrame(wsRef, <<"hi">>)
           /\ messages' = Append(messages, UserMessage(<<"hi">>))
           /\ input' = <<>>
           /\ isLoading' = TRUE]_vars

\* C20: right after a step of sendMessage that transmitted a frame the
\* processing-status list is empty.
C20_SendClearsStatuses ==
    [][(last'.op = "send" /\ sent' # sent) => processingStatuses' = <<>>]_vars

\* the socket whose close event the step delivers
JustClosed == DOMAIN sockets \ DOMAIN sockets'

\* C21: the unmount leaves wsRef null and the socket it held closing; the close
\* event of a socket the cleanup closed sets no timer; and after the unmount
\* no socket is created.
C21_UnmountDisconnect ==
    /\ [][last'.op = "unmount" =>
              /\ wsRef' = 0
              /\ wsRef \in DOMAIN sockets => sockets'[wsRef].readyState = "CLOSING"]_vars
    /\ [][(view = "unmounted" /\ last'.op = "close"
             /\ \E id \in JustClosed : sockets[id].readyState = "CLOSING") =>
              /\ timers' = timers
              /\ nextTimer' = nextTimer]_vars
    /\ [][view = "unmounted" => nextSocket' = nextSocket]_vars

\* C22: a mounted view has at most one reconnect timer pending.
C22_NoDoubleScheduling == view = "mounted" => Cardinality(DOMAIN timers) <= 1

\* C23: an open event sets reconnectAttempts to 0, and the abnormal close of a
\* socket that had opened is handled as attempt 0: it sets a timer with the
\* delay of the first retry.
C23_OpenResetsCounter ==
    /\ [][(view = "mounted" /\ last'.op = "open") => reconnectAttempts' = 0]_vars
    /\ [][(view = "mounted" /\ last'.op = "close" /\ last'.code # NORMAL_CLOSURE
             /\ \E id \in JustClosed : sockets[id].readyState = "OPEN") =>
              \E t \in DOMAIN timers' \ DOMAIN timers :
                  /\ timers'[t].attempts = 0
                  /\ timers'[t].delay = BASE_DELAY]_vars

\* the bounds of the behaviour stop timer callbacks
OutOfScope == reconnectAttempts >= scope.attempts \/ nextSocket + 1 > scope.sockets

\* C24: in a mounted view the close of a socket that was not closing, with a
\* code other than 1000 and reconnectAttempts below 3, sets a timer; a timer
\* that fires adds one to reconnectAttempts and leaves a new CONNECTING socket
\* in wsRef; and while timers are pending one of them fires, until none is.
C24_ReconnectLiveness ==
    /\ [][(view = "mounted" /\ last'.op = "close" /\ last'.code # NORMAL_CLOSURE
             /\ reconnectAttempts < RETRY_CEILING
             /\ \E id \in JustClosed : sockets[id].readyState # "CLOSING") =>
              DOMAIN timers' \ DOMAIN timers # {}]_vars
    /\ [][(view = "mounted" /\ last'.op = "timer") =>
              /\ reconnectAttempts' = reconnectAttempts + 1
              /\ nextSocket' > nextSocket
              /\ RefReadyState(Net') = "CONNECTING"]_vars
    /\ (view = "mounted" /\ DOMAIN timers # {})
           ~> (DOMAIN timers = {} \/ view # "mounted" \/ OutOfScope)

\* C25: every reconnect timer is set for an attempt n in 0..2 with the delay
\* 1000 * 2^n = 1000, 2000, 4000, which never exceeds 5000 and does not
\* decrease with n.
C25_ReconnectDelay ==
    /\ \A t \in DOMAIN timers :
           /\ timers[t].attempts \in 0..2
           /\ timers[t].delay = <<1000, 2000, 4000>>[timers[t].attempts + 1]
           /\ timers[t].delay <= MAX_DELAY
    /\ \A n \in 0..1 : ReconnectDelay(variant, n) <= ReconnectDelay(variant, n + 1)

\* a timer is pending for attempt number 2
C25_Witness == \E t \in DOMAIN timers : timers[t].attempts = 2 /\ timers[t].delay = 4000

\* C26: a payload that cannot be parsed, and a non-blank send with no OPEN socket
\* in wsRef, leave the failure in the transcript (an assistant entry with
\* error = true appended) or in the connectivity flag (isConnected false).
C26_FailureRecorded ==
    [][(\/ last'.op = "message" /\ last'.type = "unparsable"
        \/ last'.op = "send" /\ last'.type = "text" /\ RefReadyState(Net) # "OPEN") =>
           \/ /\ Len(messages') = Len(messages) + 1
              /\ messages'[Len(messages')].role = "assistant"
              /\ messages'[Len(messages')].metadata.error
           \/ ~isConnected']_vars

\* C27: while the view is mounted, a step leaves every OPEN socket OPEN unless
\* it delivers that socket's close event, and the socket whose open event a
\* step delivers is OPEN after the step.
C27_OpenNotTornDown ==
    /\ [][(view = "mounted" /\ view' = "mounted") =>
              \A id \in DOMAIN sockets \cap DOMAIN sockets' :
                  sockets[id].readyState = "OPEN" => sockets'[id].readyState = "OPEN"]_vars
    /\ [][(view = "mounted" /\ last'.op = "open") =>
              \E id \in DOMAIN sockets :
                  /\ sockets[id].readyState = "CONNECTING"
                  /\ sockets'[id].readyState = "OPEN"]_vars

\* C28: until the first open event a mounted view has created at most 4
\* sockets, and a timer that fires creates exactly one.
C28_ConnectionsPerRound ==
    /\ []((view = "mounted" /\ ~hist.opened) => nextSocket - 1 <= RETRY_CEILING + 1)
    /\ [][(view = "mounted" /\ last'.op = "timer") => nextSocket' = nextSocket + 1]_vars

\* C29: the close event of a socket other than the one in wsRef leaves wsRef as
\* it is and, when the socket in wsRef is OPEN, leaves isConnected as it is.
C29_SupersededSocketEvents ==
    [][(view = "mounted" /\ last'.op = "close" /\ wsRef # 0 /\ wsRef \notin JustClosed) =>
           /\ wsRef' = wsRef
           /\ RefReadyState(Net) = "OPEN" => isConnected' = isConnected]_vars

\* C30: in a mounted view isConnected is true only while the socket in wsRef
\* is OPEN.
C30_ConnectedMeansOpen ==
    (view = "mounted" /\ isConnected) => RefReadyState(Net) = "OPEN"

\* C31: once the view is unmounted, no socket it created is CONNECTING or OPEN.
C31_NoConnectionLeak == view = "unmounted" => LiveSockets = {}

\* C33: when the socket a frame was sent on has closed before a message or
\* error frame came, and an OPEN socket is in wsRef again with isConnected
\* true, sendMessage on a non-blank input transmits it.
C33_LoadingNotStuck ==
    (/\ view = "mounted"
     /\ hist.inFlight
     /\ sent # <<>>
     /\ sent[Len(sent)].socket \notin DOMAIN sockets
     /\ RefReadyState(Net) = "OPEN"
     /\ isConnected) =>
        SendMessageUi(variant, [Ui EXCEPT !.input = <<"hi">>], Net, isConnected).sent # sent

\* C34: while the processing-status list is non-empty the loading flag is true.
C34_StatusesOnlyWhileLoading == processingStatuses # <<>> => isLoading

\* C32: reconnectAttempts is one of 0, 1, 2, 3 in every reachable state.
C32_CounterInRange == reconnectAttempts \in 0..RETRY_CEILING

\* C35: whenever submitQuestionnaire is called, for each k in 1..6 the field
\* FIELDS[k] of its argument is the text the user last typed for the k-th
\* question, and that text is not blank.
C35_SubmissionFields ==
    [][pending' = pending + 1 =>
          \A k \in 1..Len(FIELDS) :
              /\ (k - 1) \in DOMAIN entered
              /\ Trim(entered[k - 1]) # <<>>
              /\ submitted'[k] = <<entered[k - 1]>>]_vars

\* C36: currentQuestion is one of 0..5 and the textarea of every question
\* before it holds a text that is not blank once trimmed; a click on Next
\* while the current textarea is blank changes neither currentQuestion nor
\* answers.
C36_StepperInvariant ==
    /\ [](form \in Forms =>
            /\ currentQuestion \in 0..(Len(QUESTIONS) - 1)
            /\ \A i \in 0..(currentQuestion - 1) :
                   /\ Trim(TextareaValue(form, answers, i)) # <<>>
                   /\ i \in DOMAIN entered
                   /\ entered[i] = TextareaValue(form, answers, i))
    /\ [][(/\ form \in Forms
            /\ last'.op = "next"
            /\ Trim(TextareaValue(form, answers, currentQuestion)) = <<>>) =>
               /\ currentQuestion' = currentQuestion
               /\ answers' = answers]_vars

\* the last question was reached, the user went back and blanked an answer,
\* and a click on Next there was refused
C36_Witness ==
    /\ form \in Forms
    /\ currentQuestion = 2
    /\ (Len(QUESTIONS) - 1) \in DOMAIN entered
    /\ entered[2] = <<SP>>
    /\ last.op = "next"
    /\ error = PleaseAnswer

====
